---- MODULE Spec2Model ----
(***************************************************************************)
(* Storage backends of pkg/firmirror: LocalStorage (storage_local.go) and  *)
(* S3Storage (storage_s3.go).                                              *)
(*                                                                         *)
(* A string (key, prefix, object name) is a sequence of one-character      *)
(* strings; a blob is a sequence of bytes.  A byte of the model stands for *)
(* one chunk of an io.Copy loop.                                           *)
(***************************************************************************)
EXTENDS Integers, Sequences, FiniteSets, TLC

\* ---------------------------------------------------------------- bounds
MaxKeyLen == 2
MaxS3KeyLen == 2
MaxPrefixLen == 1
MaxBlobLen == 2
MaxWrites == 2
MaxPage == 2

LocalAlphabet == {"a", ".", "/"}
S3Alphabet == {"a", "/"}

RECURSIVE StringsUpTo(_, _)
StringsUpTo(A, n) ==
    IF n = 0 THEN {<<>>}
    ELSE LET S == StringsUpTo(A, n - 1)
         IN  S \cup {Append(s, c) : s \in S, c \in A}

LocalKeys == StringsUpTo(LocalAlphabet, MaxKeyLen)
S3Keys == StringsUpTo(S3Alphabet, MaxS3KeyLen)
Prefixes == StringsUpTo(S3Alphabet, MaxPrefixLen)

\* One blob per length 1..MaxBlobLen; its bytes carry its length, so blobs
\* differ both in length and in content.
Blobs == {[i \in 1..n |-> n] : n \in 1..MaxBlobLen}

Take(s, n) == SubSeq(s, 1, n)
Drop(s, n) == SubSeq(s, n + 1, Len(s))
StartsWith(s, p) == Len(p) <= Len(s) /\ Take(s, Len(p)) = p

\* ------------------------------------------------------- variables
VARIABLES
    dirs,       \* local filesystem: the directories (absolute paths, as segment lists)
    files,      \* local filesystem: regular files, path -> content
    bucket,     \* the S3 bucket: object key -> body
    prefix,     \* S3Storage.prefix of each instance
    hist,       \* history of the Write calls made so far
    res,        \* the last call and what it returned (NoRes while a call is in progress)
    lst,        \* S3Storage.List in progress: paginator and accumulated keys
    wr,         \* concurrent LocalStorage.Write calls in progress
    rd          \* concurrent LocalStorage.Read call and the caller's drain of its stream

vars == <<dirs, files, bucket, prefix, hist, res, lst, wr, rd>>

\* ------------------------------------------------- path/filepath
\* strings.Split(s, "/")
RECURSIVE Split(_)
Split(s) ==
    IF s = <<>> THEN << <<>> >>
    ELSE LET rest == Split(Tail(s))
         IN  IF Head(s) = "/" THEN << <<>> >> \o rest
             ELSE << <<Head(s)>> \o Head(rest) >> \o Tail(rest)

\* filepath.Clean of a rooted path, on its segments: empty and "." segments
\* are dropped, ".." removes the segment before it and is dropped at the root.
RECURSIVE CleanSegs(_, _)
CleanSegs(acc, segs) ==
    IF segs = <<>> THEN acc
    ELSE LET s == Head(segs)
         IN  IF s = <<>> \/ s = <<".">> THEN CleanSegs(acc, Tail(segs))
             ELSE IF s = <<".", ".">>
                  THEN CleanSegs(IF acc = <<>> THEN acc ELSE Take(acc, Len(acc) - 1), Tail(segs))
                  ELSE CleanSegs(Append(acc, s), Tail(segs))

\* LocalStorage.basePath: the absolute directory /r
basePath == << <<"r">> >>

\* filepath.Join(s.basePath, key)
Join(base, key) == CleanSegs(<<>>, base \o Split(key))

\* ------------------------------------------------------- results
EmptyMap == [x \in {} |-> 0]
Put(f, k, v) == [x \in DOMAIN f \cup {k} |-> IF x = k THEN v ELSE f[x]]

Absent == [present |-> FALSE, bytes |-> <<>>]
Present(b) == [present |-> TRUE, bytes |-> b]

\* What a call returned.  err is the message the code wraps the cause in
\* ("" for a nil error) and cause the wrapped error; stream says that Read
\* returned a stream, bytes what draining it yields and drain the error the
\* drain ends with; found is Exists' boolean; keys is List's slice and raw
\* the object keys the store listed for it; pre is the stored blob before a
\* Write; fault is the injected fault of the environment.
NoRes ==
    [op |-> "", inst |-> "", key |-> <<>>, data |-> <<>>, fault |-> "",
     err |-> "", cause |-> "", found |-> FALSE, stream |-> FALSE,
     bytes |-> <<>>, drain |-> "", keys |-> <<>>, raw |-> <<>>, pre |-> Absent]

\* hist.n: Write calls made; hist.failed: some Write returned an error;
\* hist.last: <<instance, key>> -> the bytes of the last Write that returned nil.
NoHist == [n |-> 0, failed |-> FALSE, last |-> EmptyMap]
Record(inst, key, data, ok) ==
    [n |-> hist.n + 1,
     failed |-> hist.failed \/ ~ok,
     last |-> IF ok THEN Put(hist.last, <<inst, key>>, data) ELSE hist.last]

LstIdle == [pc |-> "idle", inst |-> "", arg |-> <<>>, first |-> FALSE,
            more |-> FALSE, token |-> <<>>, keys |-> <<>>, raw |-> <<>>]

\* ------------------------------------------------- the filesystem
IsFileAbove(path) == \E n \in 1..(Len(path) - 1) : Take(path, n) \in DOMAIN files

\* os.Stat / os.Open: the error for the path ("" when it resolves)
StatErr(path) ==
    IF path \in dirs \/ path \in DOMAIN files THEN ""
    ELSE IF IsFileAbove(path) THEN "ENOTDIR"
    ELSE "ENOENT"

\* os.Create (O_RDWR|O_CREATE|O_TRUNC): the error for the path
CreateErr(path) ==
    IF path \in dirs THEN "EISDIR"
    ELSE IF path \in DOMAIN files THEN ""
    ELSE IF IsFileAbove(path) THEN "ENOTDIR"
    ELSE IF Take(path, Len(path) - 1) \in dirs THEN ""
    ELSE "ENOENT"

\* os.IsNotExist
IsNotExist(cause) == cause = "ENOENT"

\* ------------------------------------------------- LocalStorage
\* NewLocalStorage: os.MkdirAll(basePath)
NewLocalStorage == {Take(basePath, n) : n \in 0..Len(basePath)}

LocalStored(key) ==
    LET fullPath == Join(basePath, key)
    IN  IF fullPath \in DOMAIN files THEN Present(files[fullPath]) ELSE Absent

\* Write(key, data): data delivers the first n bytes of b and then fails
\* (srcErr) or ends.
LocalWriteResult(key, b, n, srcErr) ==
    LET fullPath == Join(basePath, key)
        cerr == CreateErr(fullPath)
        base == [NoRes EXCEPT !.op = "Write", !.inst = "L", !.key = key, !.data = b,
                 !.pre = LocalStored(key)]
    IN  IF cerr # ""
        THEN [base EXCEPT !.err = "failed to create file", !.cause = cerr]
        ELSE IF srcErr
        THEN [base EXCEPT !.err = "failed to write data", !.cause = "EIO",
                          !.fault = "source"]
        ELSE base

LocalWriteFiles(key, b, n) ==
    LET fullPath == Join(basePath, key)
    IN  IF CreateErr(fullPath) # "" THEN files
        ELSE Put(files, fullPath, Take(b, n))

LocalWrite(key, b, n, srcErr) ==
    /\ hist.n < MaxWrites
    /\ n \in 0..Len(b)
    /\ srcErr \/ n = Len(b)
    /\ res' = LocalWriteResult(key, b, n, srcErr)
    /\ files' = LocalWriteFiles(key, b, n)
    /\ hist' = Record("L", key, b, res'.err = "")
    /\ UNCHANGED <<dirs, bucket, prefix, lst, wr, rd>>

\* Read(key): os.Open, with the stream drained by the caller
LocalReadResult(key, fault) ==
    LET fullPath == Join(basePath, key)
        oerr == IF fault # "" THEN fault ELSE StatErr(fullPath)
        base == [NoRes EXCEPT !.op = "Read", !.inst = "L", !.key = key, !.fault = fault]
    IN  IF oerr # ""
        THEN [base EXCEPT !.err = "failed to open file", !.cause = oerr]
        ELSE IF fullPath \in dirs
        THEN [base EXCEPT !.stream = TRUE, !.drain = "EISDIR"]
        ELSE [base EXCEPT !.stream = TRUE, !.bytes = files[fullPath]]

LocalRead(key, fault) ==
    /\ res' = LocalReadResult(key, fault)
    /\ UNCHANGED <<dirs, files, bucket, prefix, hist, lst, wr, rd>>

\* Exists(key): os.Stat
LocalExistsResult(key, fault) ==
    LET fullPath == Join(basePath, key)
        serr == IF fault # "" THEN fault ELSE StatErr(fullPath)
        base == [NoRes EXCEPT !.op = "Exists", !.inst = "L", !.key = key, !.fault = fault]
    IN  IF IsNotExist(serr) THEN base
        ELSE IF serr # ""
        THEN [base EXCEPT !.err = "failed to stat file", !.cause = serr]
        ELSE [base EXCEPT !.found = TRUE]

LocalExists(key, fault) ==
    /\ res' = LocalExistsResult(key, fault)
    /\ UNCHANGED <<dirs, files, bucket, prefix, hist, lst, wr, rd>>

LocalFaults == {"", "EACCES"}

InitLocal ==
    /\ dirs = NewLocalStorage
    /\ files = EmptyMap
    /\ bucket = EmptyMap
    /\ prefix = EmptyMap
    /\ hist = NoHist
    /\ res = NoRes
    /\ lst = LstIdle
    /\ wr = EmptyMap
    /\ rd = EmptyMap

NextLocal ==
    \/ \E k \in LocalKeys, b \in Blobs, n \in 0..MaxBlobLen, e \in BOOLEAN :
          LocalWrite(k, b, n, e)
    \/ \E k \in LocalKeys, f \in LocalFaults : LocalRead(k, f)
    \/ \E k \in LocalKeys, f \in LocalFaults : LocalExists(k, f)

SpecLocal == InitLocal /\ [][NextLocal]_vars

\* ------------------------------------------------- the object store
\* Byte order of the characters (the store lists keys in UTF-8 binary order).
CharRank(c) == CASE c = "." -> 46 [] c = "/" -> 47 [] c = "a" -> 97 [] OTHER -> 255

RECURSIVE Less(_, _)
Less(s, t) ==
    IF s = <<>> THEN t # <<>>
    ELSE IF t = <<>> THEN FALSE
    ELSE IF Head(s) = Head(t) THEN Less(Tail(s), Tail(t))
    ELSE CharRank(Head(s)) < CharRank(Head(t))

RECURSIVE SortedSeq(_)
SortedSeq(S) ==
    IF S = {} THEN <<>>
    ELSE LET m == CHOOSE x \in S : \A y \in S \ {x} : Less(x, y)
         IN  <<m>> \o SortedSeq(S \ {m})

\* ListObjectsV2: the object keys with the prefix, after the continuation
\* point, in order.
Matching(fullPrefix, first, token) ==
    SortedSeq({k \in DOMAIN bucket :
                  StartsWith(k, fullPrefix) /\ (first \/ Less(token, k))})

\* ------------------------------------------------- S3Storage
\* buildKey
buildKey(pfx, key) == IF pfx # <<>> THEN pfx \o <<"/">> \o key ELSE key

\* List's removal of the storage prefix from a listed object key
StripKey(pfx, key) ==
    IF pfx # <<>> /\ Len(key) > Len(pfx) + 1 THEN Drop(key, Len(pfx) + 1) ELSE key

RECURSIVE StripAll(_, _)
StripAll(pfx, page) ==
    IF page = <<>> THEN <<>>
    ELSE <<StripKey(pfx, Head(page))>> \o StripAll(pfx, Tail(page))

S3Stored(i, key) ==
    LET fullKey == buildKey(prefix[i], key)
    IN  IF fullKey \in DOMAIN bucket THEN Present(bucket[fullKey]) ELSE Absent

\* The request serializer of the SDK refuses an empty object key.
KeyErr(fullKey) == IF fullKey = <<>> THEN "EmptyKey" ELSE ""

\* Write(key, data).  fault: "source" (io.ReadAll fails), "transport" (the
\* upload fails and the store keeps its object), "lost" (the store applies
\* the upload and the call still fails).
S3WriteFaults == {"", "source", "transport", "lost"}

S3WriteResult(i, key, b, fault) ==
    LET fullKey == buildKey(prefix[i], key)
        base == [NoRes EXCEPT !.op = "Write", !.inst = i, !.key = key, !.data = b,
                 !.fault = fault, !.pre = S3Stored(i, key)]
    IN  IF fault = "source"
        THEN [base EXCEPT !.err = "failed to read data", !.cause = "EIO"]
        ELSE IF KeyErr(fullKey) # ""
        THEN [base EXCEPT !.err = "failed to upload to S3", !.cause = KeyErr(fullKey)]
        ELSE IF fault # ""
        THEN [base EXCEPT !.err = "failed to upload to S3", !.cause = "RequestError"]
        ELSE base

\* Mutant of S3WriteBucket: the upload is made under the logical key, without
\* the instance's prefix.
S3WriteBucketRawKey(i, key, b, fault) ==
    IF fault \in {"source", "transport"} \/ KeyErr(key) # "" THEN bucket
    ELSE Put(bucket, key, b)

S3WriteBucket(i, key, b, fault) ==
    LET fullKey == buildKey(prefix[i], key)
    IN  IF fault \in {"source", "transport"} \/ KeyErr(fullKey) # "" THEN bucket
        ELSE Put(bucket, fullKey, b)

S3Write(i, key, b, fault) ==
    /\ lst.pc = "idle"
    /\ hist.n < MaxWrites
    /\ res' = S3WriteResult(i, key, b, fault)
    /\ bucket' = S3WriteBucket(i, key, b, fault)
    /\ hist' = Record(i, key, b, res'.err = "")
    /\ UNCHANGED <<dirs, files, prefix, lst, wr, rd>>

S3Faults == {"", "transport"}

\* the error of GetObject / HeadObject for the object key
GetErr(fullKey, fault, missing) ==
    IF KeyErr(fullKey) # "" THEN KeyErr(fullKey)
    ELSE IF fault # "" THEN "RequestError"
    ELSE IF fullKey \notin DOMAIN bucket THEN missing
    ELSE ""

\* Read(key)
S3ReadResult(i, key, fault) ==
    LET fullKey == buildKey(prefix[i], key)
        derr == GetErr(fullKey, fault, "NoSuchKey")
        base == [NoRes EXCEPT !.op = "Read", !.inst = i, !.key = key, !.fault = fault]
    IN  IF derr # ""
        THEN [base EXCEPT !.err = "failed to download from S3", !.cause = derr]
        ELSE [base EXCEPT !.stream = TRUE, !.bytes = bucket[fullKey]]

S3Read(i, key, fault) ==
    /\ lst.pc = "idle"
    /\ res' = S3ReadResult(i, key, fault)
    /\ UNCHANGED <<dirs, files, bucket, prefix, hist, lst, wr, rd>>

\* Exists(key): errors.As(err, &notFound)
S3ExistsResult(i, key, fault) ==
    LET fullKey == buildKey(prefix[i], key)
        herr == GetErr(fullKey, fault, "NotFound")
        base == [NoRes EXCEPT !.op = "Exists", !.inst = i, !.key = key, !.fault = fault]
    IN  IF herr = "NotFound" THEN base
        ELSE IF herr # ""
        THEN [base EXCEPT !.err = "failed to check object existence", !.cause = herr]
        ELSE [base EXCEPT !.found = TRUE]

S3Exists(i, key, fault) ==
    /\ lst.pc = "idle"
    /\ res' = S3ExistsResult(i, key, fault)
    /\ UNCHANGED <<dirs, files, bucket, prefix, hist, lst, wr, rd>>

\* List(prefix): the paginator is created; no request is made yet.
ListStart(i, arg) ==
    /\ lst.pc = "idle"
    /\ lst' = [pc |-> "paging", inst |-> i, arg |-> arg, first |-> TRUE,
               more |-> FALSE, token |-> <<>>, keys |-> <<>>, raw |-> <<>>]
    /\ res' = NoRes
    /\ UNCHANGED <<dirs, files, bucket, prefix, hist, wr, rd>>

\* paginator.HasMorePages()
HasMorePages == lst.first \/ lst.more

\* One turn of the loop: paginator.NextPage returns a page of n keys, and
\* the keys of the page are stripped and appended.
ListPage(n) ==
    /\ lst.pc = "paging"
    /\ HasMorePages
    /\ LET pfx == prefix[lst.inst]
           all == Matching(buildKey(pfx, lst.arg), lst.first, lst.token)
           page == Take(all, n)
       IN  /\ n <= Len(all)
           /\ n = 0 => all = <<>>
           /\ lst' = [lst EXCEPT !.first = FALSE,
                                 !.more = n < Len(all),
                                 !.token = IF n = 0 THEN lst.token ELSE page[n],
                                 !.keys = lst.keys \o StripAll(pfx, page),
                                 !.raw = lst.raw \o page]
    /\ UNCHANGED <<dirs, files, bucket, prefix, hist, res, wr, rd>>

\* Mutant of ListPageFail: the keys accumulated so far are returned with the error.
ListPageFailPartial ==
    /\ lst.pc = "paging"
    /\ HasMorePages
    /\ res' = [NoRes EXCEPT !.op = "List", !.inst = lst.inst, !.key = lst.arg,
                   !.fault = "transport", !.err = "failed to list objects",
                   !.cause = "RequestError", !.keys = lst.keys, !.raw = lst.raw]
    /\ lst' = LstIdle
    /\ UNCHANGED <<dirs, files, bucket, prefix, hist, wr, rd>>

\* paginator.NextPage fails: return nil, err
ListPageFail ==
    /\ lst.pc = "paging"
    /\ HasMorePages
    /\ res' = [NoRes EXCEPT !.op = "List", !.inst = lst.inst, !.key = lst.arg,
                   !.fault = "transport", !.err = "failed to list objects",
                   !.cause = "RequestError", !.raw = lst.raw]
    /\ lst' = LstIdle
    /\ UNCHANGED <<dirs, files, bucket, prefix, hist, wr, rd>>

\* the loop ends: return keys, nil
ListReturn ==
    /\ lst.pc = "paging"
    /\ ~HasMorePages
    /\ res' = [NoRes EXCEPT !.op = "List", !.inst = lst.inst, !.key = lst.arg,
                   !.keys = lst.keys, !.raw = lst.raw]
    /\ lst' = LstIdle
    /\ UNCHANGED <<dirs, files, bucket, prefix, hist, wr, rd>>

\* NewS3Storage: one instance with any prefix, on an empty bucket
InitS3 ==
    /\ dirs = {}
    /\ files = EmptyMap
    /\ bucket = EmptyMap
    /\ prefix \in [{"P"} -> Prefixes]
    /\ hist = NoHist
    /\ res = NoRes
    /\ lst = LstIdle
    /\ wr = EmptyMap
    /\ rd = EmptyMap

NextS3 ==
    \/ \E i \in DOMAIN prefix, k \in S3Keys, b \in Blobs, f \in S3WriteFaults :
          S3Write(i, k, b, f)
    \/ \E i \in DOMAIN prefix, k \in S3Keys, f \in S3Faults : S3Read(i, k, f)
    \/ \E i \in DOMAIN prefix, k \in S3Keys, f \in S3Faults : S3Exists(i, k, f)
    \/ \E i \in DOMAIN prefix, p \in S3Keys : ListStart(i, p)
    \/ \E n \in 0..MaxPage : ListPage(n)
    \/ ListPageFail
    \/ ListReturn

SpecS3 == InitS3 /\ [][NextS3]_vars

\* What List(arg) returns when no page fails: every matching object key,
\* in the store's order, stripped.
ListAll(i, arg) ==
    StripAll(prefix[i], Matching(buildKey(prefix[i], arg), TRUE, <<>>))

\* Two instances with different prefixes on one bucket
InitS3Two ==
    /\ dirs = {}
    /\ files = EmptyMap
    /\ bucket = EmptyMap
    /\ prefix \in {f \in [{"P", "Q"} -> Prefixes] : f["P"] # f["Q"]}
    /\ hist = NoHist
    /\ res = NoRes
    /\ lst = LstIdle
    /\ wr = EmptyMap
    /\ rd = EmptyMap

\* Both instances write; the calls that read go through Q (their transport
\* faults are exercised in SpecS3).
NextS3Two ==
    \/ \E i \in DOMAIN prefix, k \in S3Keys, b \in Blobs, f \in S3WriteFaults :
          S3Write(i, k, b, f)
    \/ \E k \in S3Keys : S3Read("Q", k, "")
    \/ \E k \in S3Keys : S3Exists("Q", k, "")

SpecS3Two == InitS3Two /\ [][NextS3Two]_vars

\* ------------------------------- LocalStorage under concurrent callers
\* Two callers of Write and one caller of Read, all on the key "a".
Writers == {1, 2}
ConcKey == <<"a">>
ConcPath == Join(basePath, ConcKey)

\* the blob of writer w, of length n: bytes that name the writer
BlobOf(w, n) == [j \in 1..n |-> w]

\* a write of one byte at a file offset (the gap after a truncation reads as 0)
WriteAt(content, off, byte) ==
    [j \in 1..(IF off < Len(content) THEN Len(content) ELSE off + 1) |->
        IF j = off + 1 THEN byte
        ELSE IF j <= Len(content) THEN content[j]
        ELSE 0]

\* Write: os.Create
WCreate(w) ==
    /\ wr[w].pc = "start"
    /\ CreateErr(ConcPath) = ""
    /\ files' = Put(files, ConcPath, <<>>)
    /\ wr' = [wr EXCEPT ![w].pc = "copy", ![w].off = 0]
    /\ UNCHANGED <<dirs, bucket, prefix, hist, res, lst, rd>>

\* Write: one write of the io.Copy loop, at the offset of the writer's own handle
WCopy(w) ==
    /\ wr[w].pc = "copy"
    /\ wr[w].off < Len(wr[w].data)
    /\ files' = Put(files, ConcPath,
                    WriteAt(files[ConcPath], wr[w].off, wr[w].data[wr[w].off + 1]))
    /\ wr' = [wr EXCEPT ![w].off = @ + 1]
    /\ UNCHANGED <<dirs, bucket, prefix, hist, res, lst, rd>>

\* Write: data is at its end; file.Close and return nil
WReturn(w) ==
    /\ wr[w].pc = "copy"
    /\ wr[w].off = Len(wr[w].data)
    /\ wr' = [wr EXCEPT ![w].pc = "done"]
    /\ UNCHANGED <<dirs, files, bucket, prefix, hist, res, lst, rd>>

\* Read: os.Open
ROpen ==
    /\ rd.pc = "start"
    /\ rd' = [rd EXCEPT !.pc = IF StatErr(ConcPath) = "" THEN "drain" ELSE "failed"]
    /\ UNCHANGED <<dirs, files, bucket, prefix, hist, res, lst, wr>>

\* the caller drains the returned handle: one read, of one byte or of the end
RDrain ==
    /\ rd.pc = "drain"
    /\ rd' = IF rd.off < Len(files[ConcPath])
             THEN [rd EXCEPT !.off = @ + 1,
                             !.buf = Append(@, files[ConcPath][rd.off + 1])]
             ELSE [rd EXCEPT !.pc = "done"]
    /\ UNCHANGED <<dirs, files, bucket, prefix, hist, res, lst, wr>>

InitConc ==
    /\ dirs = NewLocalStorage
    /\ files = EmptyMap
    /\ bucket = EmptyMap
    /\ prefix = EmptyMap
    /\ hist = NoHist
    /\ res = NoRes
    /\ lst = LstIdle
    /\ \E len \in [Writers -> 1..MaxBlobLen] :
          wr = [w \in Writers |-> [pc |-> "start", off |-> 0, data |-> BlobOf(w, len[w])]]
    /\ rd = [pc |-> "start", off |-> 0, buf |-> <<>>]

NextConc ==
    \/ \E w \in Writers : WCreate(w)
    \/ \E w \in Writers : WCopy(w)
    \/ \E w \in Writers : WReturn(w)
    \/ ROpen
    \/ RDrain

SpecConc == InitConc /\ [][NextConc]_vars

\* ------------------------------------- claims on the sequential calls
Written(inst, key) == <<inst, key>> \in DOMAIN hist.last

\* C1: after a run of Write calls that all returned nil, Read(k) returns a
\* stream that drains to exactly the bytes of the last Write(k, b).
C1_ReadYieldsLastWrite ==
    (res.op = "Read" /\ res.fault = "" /\ ~hist.failed /\ Written(res.inst, res.key))
        => /\ res.err = ""
           /\ res.stream
           /\ res.drain = ""
           /\ res.bytes = hist.last[<<res.inst, res.key>>]

\* C2: Exists(k) returns (true, nil) exactly when a blob was written at k,
\* (false, nil) when k was never written, an error only for a fault that is
\* not absence, and never true together with an error.
C2_ExistsIffWritten ==
    (res.op = "Exists" /\ ~hist.failed)
        => /\ ~(res.found /\ res.err # "")
           /\ res.err # "" => res.fault # ""
           /\ res.fault = "" => (res.found <=> Written(res.inst, res.key))

\* C3: Read(k) of a key no Write was made for returns no stream and fails
\* with the not-found outcome.
C3_ReadUnwrittenIsNotFound ==
    (res.op = "Read" /\ res.fault = "" /\ ~hist.failed /\ ~Written(res.inst, res.key))
        => /\ ~res.stream
           /\ res.err # ""
           /\ res.cause \in {"ENOENT", "NoSuchKey"}

\* C8: after Write(k, b) returns, with nil or with an error, the blob stored
\* at k is the blob stored there before the call (or still none) or exactly b.
C8_LocalWriteAllOrNothing ==
    (res.op = "Write" /\ res.inst = "L")
        => LocalStored(res.key) \in {res.pre, Present(res.data)}

\* What Read(k) and Exists(k) return in the current state, without a fault.
LocalView(key) == <<LocalReadResult(key, ""), LocalExistsResult(key, "")>>

\* C9: a Write(k2, b2) leaves what Read(k1) and Exists(k1) return unchanged
\* for every key k1 other than k2.
C9_LocalWriteFrame ==
    [][\A k1 \in LocalKeys :
          (hist'.n = hist.n + 1 /\ res'.op = "Write" /\ res'.key # k1)
              => LocalView(k1)' = LocalView(k1)]_vars

Range(s) == {s[j] : j \in 1..Len(s)}

\* C4: after Write calls that all returned nil, with keys K, a List(p) that
\* returns no error returns exactly the keys of K that begin with p, each
\* once.
C4_ListReturnsWrittenKeys ==
    (res.op = "List" /\ res.err = "" /\ ~hist.failed)
        => /\ Range(res.keys) = {k \in S3Keys : Written(res.inst, k) /\ StartsWith(k, res.key)}
           /\ Cardinality(Range(res.keys)) = Len(res.keys)

\* C6: a List that fails on any page returns an error and no key; a List
\* that returns no error has fetched every page: its keys are those of all
\* the matching objects.
C6_ListAllPagesOrError ==
    res.op = "List"
        => /\ res.err # "" => res.keys = <<>>
           /\ res.err = "" => res.keys = ListAll(res.inst, res.key)

\* C6, witness: a List failed on a page after an earlier page had delivered keys.
C6_FailedAfterFirstPage ==
    res.op = "List" /\ res.err # "" /\ res.raw # <<>>

\* C7: with a prefix configured, List strips len(prefix)+1 characters from
\* every object key of at least that length and returns any other key as it
\* is; the returned key is the one buildKey maps to the object key.
C7_StripInvertsBuildKey ==
    (res.op = "List" /\ res.err = "")
        => \A j \in 1..Len(res.raw) :
              LET pfx == prefix[res.inst]
                  n == Len(pfx) + 1
              IN  /\ res.keys[j] = IF pfx # <<>> /\ Len(res.raw[j]) >= n
                                   THEN Drop(res.raw[j], n)
                                   ELSE res.raw[j]
                  /\ buildKey(pfx, res.keys[j]) = res.raw[j]

\* What Read(k), Exists(k) and List(k) return through instance i in the
\* current state, without a fault.
S3View(i, key) ==
    <<S3ReadResult(i, key, ""), S3ExistsResult(i, key, ""), ListAll(i, key)>>

WriteThrough(i) == hist'.n = hist.n + 1 /\ res'.op = "Write" /\ res'.inst = i

Overlap(p, q) ==
    \/ p = <<>>
    \/ q = <<>>
    \/ StartsWith(Append(q, "/"), Append(p, "/"))
    \/ StartsWith(Append(p, "/"), Append(q, "/"))

AllWritten == \A w \in Writers : wr[w].pc = "done"
WholeBlobs == {wr[w].data : w \in Writers}

\* C5: with Write(k, b1), Write(k, b2) and Read(k) interleaved, a completed
\* Read drains to exactly b1 or b2, and once both Writes have returned the
\* stored blob is exactly b1 or b2.
C5_ConcurrentCallsSeeWholeBlobs ==
    /\ rd.pc = "done" => rd.buf \in WholeBlobs
    /\ AllWritten => files[ConcPath] \in WholeBlobs

====
